---- MODULE Spec2Model ----
(***************************************************************************)
(* Model of the translation-template generator (gen_literal_po.py):        *)
(*   Transfer  - anchor (uuid) management and resynchronisation            *)
(*   Glossary  - word-boundary matching of headwords in a segmented line   *)
(*   Po        - assembly of the translation units and the persisted file  *)
(*                                                                         *)
(* Python strings are modelled as sequences of one-character strings.      *)
(* The anchor delimiter U+2014 (em dash) is written "#", the Ogham space   *)
(* U+1680 is written "^", the affix marker U+2423 is written "~" and the   *)
(* Tibetan tsek U+0F0B is written ".".  A uuid4().hex value is one opaque  *)
(* character: the n-th value generated is ToString(n).                     *)
(***************************************************************************)
EXTENDS Naturals, Integers, Sequences, FiniteSets, TLC

VARIABLES txt, poExists, po, issued, out

vars == <<txt, poExists, po, issued, out>>

\* ------------------------------------------------------------ characters
Delim == "#"
NL == "\n"
SP == " "
OghamSpace == "^"
Underscore == "_"
Shad == "|"
AffixMark == "~"
Tsek == "."

\* ------------------------------------------------------------ bounds
MaxStack == 3
MaxDocLines == 2

\* ------------------------------------------------------------ str methods
\* Python str.strip() with no argument: whitespace off both ends.
IsSpace(c) == c \in {SP, NL}

RECURSIVE lstrip(_)
lstrip(s) == IF s # <<>> /\ IsSpace(Head(s)) THEN lstrip(Tail(s)) ELSE s

RECURSIVE rstrip(_)
rstrip(s) ==
    IF s # <<>> /\ IsSpace(s[Len(s)]) THEN rstrip(SubSeq(s, 1, Len(s) - 1)) ELSE s

strip(s) == rstrip(lstrip(s))

\* str.find(c, start) for a one-character c, 1-based; 0 stands for Python's -1.
find(s, c, start) ==
    IF \E i \in start..Len(s) : s[i] = c
    THEN CHOOSE i \in start..Len(s) : s[i] = c /\ \A j \in start..(i - 1) : s[j] # c
    ELSE 0

\* str.count(c) for a one-character c.
count(s, c) == Cardinality({i \in 1..Len(s) : s[i] = c})

\* str.split(c) for a one-character separator: never returns an empty list.
RECURSIVE split(_, _)
split(s, c) ==
    LET i == find(s, c, 1)
    IN  IF i = 0 THEN <<s>>
        ELSE <<SubSeq(s, 1, i - 1)>> \o split(SubSeq(s, i + 1, Len(s)), c)

Range(q) == {q[i] : i \in 1..Len(q)}

\* sep.join(parts)
RECURSIVE join(_, _)
join(parts, sep) ==
    IF parts = <<>> THEN <<>>
    ELSE IF Len(parts) = 1 THEN parts[1]
    ELSE parts[1] \o sep \o join(Tail(parts), sep)

startswith(s, p) == Len(p) <= Len(s) /\ SubSeq(s, 1, Len(p)) = p

endswith(s, p) == Len(p) <= Len(s) /\ SubSeq(s, Len(s) - Len(p) + 1, Len(s)) = p

\* the Python test  p in s
contains(s, p) == \E i \in 1..(Len(s) - Len(p) + 1) : SubSeq(s, i, i + Len(p) - 1) = p

\* str.replace(old, new): non-overlapping occurrences, left to right.
RECURSIVE replace(_, _, _)
replace(s, old, new) ==
    IF s = <<>> THEN <<>>
    ELSE IF startswith(s, old) THEN new \o replace(SubSeq(s, Len(old) + 1, Len(s)), old, new)
    ELSE <<Head(s)>> \o replace(Tail(s), old, new)

\* ------------------------------------------------------------ Transfer
\* Transfer.get_unique_id: the value generated after n earlier ones.
get_unique_id(n) == <<ToString(n + 1)>>

\* the f-string  f'{Delim}{b}{Delim}'
Anchor(b) == <<Delim>> \o b \o <<Delim>>

\* The loop of add_missing_uuids over lines[num..]; n counts the ids generated.
RECURSIVE AddLoop(_, _, _)
AddLoop(lines, num, n) ==
    IF num > Len(lines) THEN [lines |-> lines, issued |-> n]
    ELSE LET l == strip(lines[num])
         IN  IF ~endswith(l, <<Delim>>)
             THEN AddLoop([lines EXCEPT ![num] = l \o Anchor(get_unique_id(n))],
                          num + 1, n + 1)
             ELSE AddLoop(lines, num + 1, n)

\* Faulty variants of add_missing_uuids: always appends an anchor, whether or not
\* the line ends with the delimiter (always); calls get_unique_id once, before
\* the loop, instead of once per line (oneId).
RECURSIVE FaultyAddLoop(_, _, _, _, _)
FaultyAddLoop(lines, num, n, always, oneId) ==
    IF num > Len(lines) THEN [lines |-> lines, issued |-> IF oneId THEN n + 1 ELSE n]
    ELSE LET l == strip(lines[num])
         IN  IF always \/ ~endswith(l, <<Delim>>)
             THEN FaultyAddLoop([lines EXCEPT ![num] = l \o Anchor(get_unique_id(n))],
                                num + 1, IF oneId THEN n ELSE n + 1, always, oneId)
             ELSE FaultyAddLoop(lines, num + 1, n, always, oneId)

add_missing_uuids_always(dump, n) ==
    LET r == FaultyAddLoop(split(strip(dump), NL), 1, n, TRUE, FALSE)
    IN  [text |-> join(r.lines, <<NL>>), issued |-> r.issued]

add_missing_uuids_one_id(dump, n) ==
    LET r == FaultyAddLoop(split(strip(dump), NL), 1, n, FALSE, TRUE)
    IN  [text |-> join(r.lines, <<NL>>), issued |-> r.issued]

\* Transfer.add_missing_uuids, with the number of ids generated so far.
add_missing_uuids(dump, n) ==
    LET r == AddLoop(split(strip(dump), NL), 1, n)
    IN  [text |-> join(r.lines, <<NL>>), issued |-> r.issued]

\* Faulty variant of remove_extra_uuid: the test is count >= 2 instead of > 2.
remove_extra_uuid_ge2(line) ==
    IF count(line, Delim) >= 2
    THEN LET idx1 == find(line, Delim, 1)
             idx2 == find(line, Delim, idx1 + 1)
         IN  strip(SubSeq(line, 1, idx1 - 1) \o SubSeq(line, idx2 + 1, Len(line)))
    ELSE line

\* Transfer.remove_extra_uuid
remove_extra_uuid(line) ==
    IF count(line, Delim) > 2
    THEN LET idx1 == find(line, Delim, 1)
             idx2 == find(line, Delim, idx1 + 1)
         IN  strip(SubSeq(line, 1, idx1 - 1) \o SubSeq(line, idx2 + 1, Len(line)))
    ELSE line

\* ------------------------------------------------------------ SpecAnchor
\* Documents for the anchor operations: lines of an optional leading space,
\* the text "a", up to MaxStack stacked anchors and an optional trailing
\* space, or the empty line.
RECURSIVE Stacked(_)
Stacked(k) == IF k = 0 THEN <<>> ELSE Stacked(k - 1) \o Anchor(<<ToString(k)>>)

LineShapes ==
    {<<>>} \cup
    {lead \o <<"a">> \o Stacked(k) \o trail :
        lead \in {<<>>, <<SP>>}, trail \in {<<>>, <<SP>>}, k \in 0..MaxStack}

\* The sequences of at most n elements of S.
RECURSIVE Strings(_, _)
Strings(S, n) ==
    IF n = 0 THEN {<<>>}
    ELSE LET shorter == Strings(S, n - 1)
         IN  shorter \cup {Append(q, x) : q \in {r \in shorter : Len(r) = n - 1}, x \in S}

AnchorDocs == {join(ls, <<NL>>) : ls \in Strings(LineShapes, MaxDocLines)}

NoOut == [op |-> "none"]

InitAnchor ==
    /\ txt \in AnchorDocs
    /\ poExists = FALSE
    /\ po = <<>>
    /\ issued = MaxStack
    /\ out = NoOut

\* add_missing_uuids applied to the document, and again to its own result.
AddMissingUuids ==
    /\ out.op = "none"
    /\ LET once == add_missing_uuids(txt, issued)
           twice == add_missing_uuids(once.text, once.issued)
       IN  /\ out' = [op |-> "add_missing_uuids", once |-> once.text,
                      twice |-> twice.text, issuedBefore |-> issued,
                      issuedOnce |-> once.issued]
           /\ issued' = twice.issued
    /\ UNCHANGED <<txt, poExists, po>>

\* remove_extra_uuid applied to one (stripped) line of the document.
RemoveExtraUuid ==
    /\ out.op = "none"
    /\ \E line \in {strip(l) : l \in Range(split(strip(txt), NL))} :
          /\ out' = [op |-> "remove_extra_uuid", line |-> line,
                     res |-> remove_extra_uuid(line)]
    /\ UNCHANGED <<txt, poExists, po, issued>>

NextAnchor == AddMissingUuids \/ RemoveExtraUuid

SpecAnchor == InitAnchor /\ [][NextAnchor]_vars

\* ------------------------------------------------------------ resynchronisation
MaxUnits == 2
MaxDumpLen == 3

\* A translation unit of the persisted file (polib.POEntry).
Unit(msgid, msgctxt, msgstr, tcomment) ==
    [msgid |-> msgid, msgctxt |-> msgctxt, msgstr |-> msgstr, tcomment |-> tcomment]

\* The old-version document of extract_entries: one synthetic line per unit.
RECURSIVE PoEntries(_)
PoEntries(units) ==
    IF units = <<>> THEN <<>>
    ELSE <<replace(replace(Head(units).msgid, <<SP>>, <<>>), <<OghamSpace>>, <<SP>>)
             \o Anchor(Head(units).msgctxt)>>
         \o PoEntries(Tail(units))

po_dump(units) == join(PoEntries(units), <<NL>>)

\* The spans of s matching the pattern (Delim .+? Delim), each with the number of
\* unmarked characters before it, and s without them.
RECURSIVE Marked(_, _)
Marked(s, before) ==
    LET i == find(s, Delim, 1)
        j == IF i = 0 THEN 0 ELSE find(s, Delim, i + 2)
    IN  IF j = 0 THEN [base |-> s, anns |-> <<>>]
        ELSE LET rest == Marked(SubSeq(s, j + 1, Len(s)), before + i - 1)
             IN  [base |-> SubSeq(s, 1, i - 1) \o rest.base,
                  anns |-> <<[pos |-> before + i - 1, span |-> SubSeq(s, i, j)]>>
                           \o rest.anns]

RECURSIVE CommonPrefix(_, _)
CommonPrefix(a, b) ==
    IF a # <<>> /\ b # <<>> /\ Head(a) = Head(b)
    THEN 1 + CommonPrefix(Tail(a), Tail(b)) ELSE 0

Reverse(s) == [i \in 1..Len(s) |-> s[Len(s) + 1 - i]]

\* new with the spans of anns placed: at[i] is the number of characters of new
\* before span i, or -1 when span i is left out.
RECURSIVE Place(_, _, _, _)
Place(new, anns, at, q) ==
    LET here == {i \in 1..Len(anns) : at[i] = q}
        RECURSIVE Spans(_)
        Spans(i) == IF i > Len(anns) THEN <<>>
                    ELSE (IF i \in here THEN anns[i].span ELSE <<>>) \o Spans(i + 1)
    IN  IF q = Len(new) THEN Spans(1)
        ELSE Spans(1) \o <<new[q + 1]>> \o Place(new, anns, at, q + 1)

\* The alignment primitive antx.transfer(source, pattern, target, 'txt') by its
\* contract: the spans marked in source are copied to the corresponding place
\* of target.  A span whose preceding text lies in the common prefix, or in the
\* common suffix, of the two texts goes to the same place; any other span goes
\* somewhere in the changed region, in order, or is left out.
transfer(source, target) ==
    LET m == Marked(source, 0)
        old == m.base
        cp == CommonPrefix(old, target)
        cs == CommonPrefix(Reverse(SubSeq(old, cp + 1, Len(old))),
                           Reverse(SubSeq(target, cp + 1, Len(target))))
        Allowed(i) ==
            LET p == m.anns[i].pos
            IN  IF p <= cp THEN {p}
                ELSE IF p > Len(old) - cs THEN {Len(target) - (Len(old) - p)}
                ELSE (cp..(Len(target) - cs)) \cup {-1}
        Ats == {at \in [1..Len(m.anns) -> (-1)..Len(target)] :
                  /\ \A i \in 1..Len(m.anns) : at[i] \in Allowed(i)
                  /\ \A i, j \in 1..Len(m.anns) :
                        (i < j /\ at[i] # -1 /\ at[j] # -1) => at[i] <= at[j]}
    IN  {Place(target, m.anns, at, 0) : at \in Ats}

\* Transfer.extract_entries: the documents the call may return.
extract_entries(dump, units) == transfer(po_dump(units), dump)

\* The parsing loop of generate_entries over lines[i..]; the unpacking of
\* line[:-1].split(Delim) into txt, ctxt raises ValueError unless it has two parts.
RECURSIVE ParseLoop(_, _, _)
ParseLoop(lines, i, entries) ==
    IF i > Len(lines) THEN [kind |-> "ok", entries |-> entries]
    ELSE LET line == remove_extra_uuid(strip(lines[i]))
             parts == split(SubSeq(line, 1, Len(line) - 1), Delim)
         IN  IF Len(parts) # 2 THEN [kind |-> "ValueError", entries |-> entries]
             ELSE ParseLoop(lines, i + 1, Append(entries, <<parts[1], parts[2]>>))

\* Transfer.generate_entries from the (possibly transferred) dump on.
GenerateFrom(dump, n) ==
    LET updated == add_missing_uuids(dump, n)
        r == ParseLoop(split(strip(updated.text), NL), 1, <<>>)
    IN  [kind |-> r.kind, entries |-> r.entries, issued |-> updated.issued]

\* Faulty variant of generate_entries: extract_entries is called without the
\* is_file() test.
generate_entries_always_extract(dump, isFile, units, n) ==
    {[op |-> "generate_entries", readPo |-> TRUE, aligned |-> TRUE,
      transfered |-> d, issuedBefore |-> n] @@ GenerateFrom(d, n) :
        d \in extract_entries(dump, units)}

\* Transfer.generate_entries: the results it may give.  readPo and aligned record
\* whether the persisted file was read and the alignment primitive called.
generate_entries(dump, isFile, units, n) ==
    LET dumps == IF isFile THEN extract_entries(dump, units) ELSE {dump}
    IN  {[op |-> "generate_entries", readPo |-> isFile, aligned |-> isFile,
          transfered |-> d, issuedBefore |-> n] @@ GenerateFrom(d, n) : d \in dumps}

\* Input files: units carry the anchors 1..N in file order, as earlier runs
\* left them; the source is any short text, the text of the units itself, or
\* that text with one more line.
Msgids == {<<>>, <<"a">>, <<"a", SP, "b">>}

PoFiles ==
    {[i \in 1..Len(ids) |-> Unit(ids[i], <<ToString(i)>>, <<>>, <<>>)] :
        ids \in Strings(Msgids, MaxUnits) \ {<<>>}}

OldText(units) == Marked(po_dump(units), 0).base

NewLines == {<<"b">>, <<"b", "a">>}

Dumps(units) ==
    Strings({"a", "b", SP, NL}, MaxDumpLen)
    \cup {OldText(units)}
    \cup {OldText(units) \o <<NL>> \o l : l \in NewLines}

InitResync ==
    /\ poExists \in BOOLEAN
    /\ po \in IF poExists THEN PoFiles ELSE {<<>>}
    /\ txt \in Dumps(po)
    /\ issued = Len(po)
    /\ out = NoOut

GenerateEntries ==
    /\ out.op = "none"
    /\ \E r \in generate_entries(txt, poExists, po, issued) :
          /\ out' = r
          /\ issued' = r.issued
    /\ UNCHANGED <<txt, poExists, po>>

NextResync == GenerateEntries

SpecResync == InitResync /\ [][NextResync]_vars

\* ------------------------------------------------------------ Glossary
MaxSegLen == 5

\* Glossary.entries: the index, in dict order, keyed by the segmented headword;
\* the value keeps the headword and its number (the definitions are left out).
GlossaryEntries ==
    << [key |-> <<"a">>, word |-> "a", num |-> 1],
       [key |-> <<"b">>, word |-> "b", num |-> 2],
       [key |-> <<"a", SP, "b">>, word |-> "ab", num |-> 3] >>

\* Glossary._find_matches: the loop over self.entries from index i on.
RECURSIVE FindLoop(_, _, _)
FindLoop(segment, i, matches) ==
    IF i > Len(GlossaryEntries) THEN matches
    ELSE LET word == GlossaryEntries[i].key
         IN  IF startswith(segment, word \o <<SP>>)
             THEN FindLoop(segment, i + 1, Append(matches, GlossaryEntries[i]))
             ELSE IF endswith(segment, <<SP>> \o word)
             THEN FindLoop(segment, i + 1, Append(matches, GlossaryEntries[i]))
             ELSE IF contains(segment, <<SP>> \o word \o <<SP>>)
             THEN FindLoop(segment, i + 1, Append(matches, GlossaryEntries[i]))
             ELSE FindLoop(segment, i + 1, matches)

\* Faulty variants of _find_matches: a plain substring test, and three
\* independent ifs in place of the if/elif chain.
RECURSIVE FaultyFindLoop(_, _, _, _)
FaultyFindLoop(segment, i, matches, substring) ==
    IF i > Len(GlossaryEntries) THEN matches
    ELSE LET word == GlossaryEntries[i].key
             e == <<GlossaryEntries[i]>>
             found ==
                IF substring THEN (IF contains(segment, word) THEN e ELSE <<>>)
                ELSE (IF startswith(segment, word \o <<SP>>) THEN e ELSE <<>>)
                     \o (IF endswith(segment, <<SP>> \o word) THEN e ELSE <<>>)
                     \o (IF contains(segment, <<SP>> \o word \o <<SP>>) THEN e ELSE <<>>)
         IN  FaultyFindLoop(segment, i + 1, matches \o found, substring)

_find_matches_substring(segment) == FaultyFindLoop(segment, 1, <<>>, TRUE)

_find_matches_independent(segment) == FaultyFindLoop(segment, 1, <<>>, FALSE)

_find_matches(segment) == FindLoop(segment, 1, <<>>)

\* The normalisation find_entries applies to the segmented line.
Normalized(segment) ==
    replace(replace(replace(segment, <<AffixMark>>, <<SP>>), <<Tsek, SP>>, <<SP>>),
            <<OghamSpace>>, <<SP>>)

\* Glossary.find_entries
find_entries(segment) == _find_matches(Normalized(segment))

InitGlossary ==
    /\ txt \in Strings({"a", "b", SP, AffixMark, Tsek, OghamSpace}, MaxSegLen)
    /\ poExists = FALSE
    /\ po = <<>>
    /\ issued = 0
    /\ out = NoOut

FindEntries ==
    /\ out.op = "none"
    /\ out' = [op |-> "find_entries", segment |-> Normalized(txt),
               matches |-> find_entries(txt)]
    /\ UNCHANGED <<txt, poExists, po, issued>>

NextGlossary == FindEntries

SpecGlossary == InitGlossary /\ [][NextGlossary]_vars

\* ------------------------------------------------------------ Po
MaxSrcLines == 2
MaxIds == 4

\* The pieces of re.split(open .*? close) with a capturing group.
RECURSIVE SplitSpans(_, _, _)
SplitSpans(s, open, close) ==
    LET i == find(s, open, 1)
        j == IF i = 0 THEN 0 ELSE find(s, close, i + 1)
    IN  IF j = 0 THEN <<s>>
        ELSE <<SubSeq(s, 1, i - 1), SubSeq(s, i, j)>>
             \o SplitSpans(SubSeq(s, j + 1, Len(s)), open, close)

RECURSIVE JoinNot(_, _)
JoinNot(pieces, c) ==
    IF pieces = <<>> THEN <<>>
    ELSE (IF startswith(Head(pieces), <<c>>) THEN <<>> ELSE Head(pieces))
         \o JoinNot(Tail(pieces), c)

\* Po.remove_peydurma_notes
remove_peydurma_notes(line) ==
    LET note == SplitSpans(line, "<", ">")
    IN  IF Len(note) > 1 THEN replace(JoinNot(note, "<"), <<":">>, <<>>) ELSE <<>>

\* re.sub('\[.+?\]', '', s)
RECURSIVE RemoveBrackets(_)
RemoveBrackets(s) ==
    LET i == find(s, "[", 1)
        j == IF i = 0 THEN 0 ELSE find(s, "]", i + 2)
    IN  IF j = 0 THEN s
        ELSE SubSeq(s, 1, i - 1) \o RemoveBrackets(SubSeq(s, j + 1, Len(s)))

\* The word tokenizer (botok) by its interface: the tokens, here the syllables
\* closed by a tsek, joined by single spaces, a space of the input shown as "_".
RECURSIVE tokenize_words_raw_text(_)
tokenize_words_raw_text(s) ==
    IF s = <<>> THEN <<>>
    ELSE IF Head(s) = SP THEN <<Underscore>> \o tokenize_words_raw_text(Tail(s))
    ELSE IF Head(s) = Tsek /\ Len(s) > 1 /\ s[2] # SP
         THEN <<Tsek, SP>> \o tokenize_words_raw_text(Tail(s))
    ELSE <<Head(s)>> \o tokenize_words_raw_text(Tail(s))

\* re.sub('([^shad tsek _]) ([^_ shad tsek])', '\g<1>~\g<2>', s)
RECURSIVE AffixSub(_)
AffixSub(s) ==
    IF Len(s) < 3 THEN s
    ELSE IF /\ s[1] \notin {Shad, Tsek, Underscore}
            /\ s[2] = SP
            /\ s[3] \notin {Underscore, Shad, Tsek}
         THEN <<s[1], AffixMark, s[3]>> \o AffixSub(SubSeq(s, 4, Len(s)))
    ELSE <<Head(s)>> \o AffixSub(Tail(s))

\* segment_in_words
segment_in_words(string) ==
    replace(AffixSub(tokenize_words_raw_text(string)), <<Underscore>>, <<SP>>)

\* Po.lines_to_entries after generate_entries: the units appended to the fresh
\* POFile, one per (line, ctxt); _create_entry leaves msgstr at its default "".
\* The translator comment is kept as the list of entries found, not rendered.
RECURSIVE CreateEntries(_)
CreateEntries(lines) ==
    IF lines = <<>> THEN <<>>
    ELSE LET line == Head(lines)[1]
             ctxt == Head(lines)[2]
             stripped == remove_peydurma_notes(line)
             no_notes == segment_in_words(
                             RemoveBrackets(IF stripped = <<>> THEN line ELSE stripped))
         IN  <<Unit(no_notes, ctxt, <<>>, find_entries(no_notes))>>
             \o CreateEntries(Tail(lines))

lines_to_entries(lines) == CreateEntries(lines)

SrcLines == {<<"a", Tsek>>, <<"b", Tsek>>}

SrcDocs == {join(ls, <<NL>>) : ls \in Strings(SrcLines, MaxSrcLines) \ {<<>>}}

Init ==
    /\ txt \in SrcDocs
    /\ poExists = FALSE
    /\ po = <<>>
    /\ issued = 0
    /\ out = NoOut

\* The source text is edited between runs.
EditSource ==
    /\ \E d \in SrcDocs \ {txt} : txt' = d
    /\ out' = [op |-> "edit"]
    /\ UNCHANGED <<poExists, po, issued>>

\* A translator fills in the msgstr of a unit of the persisted file.
Translate ==
    /\ poExists
    /\ \E i \in 1..Len(po) :
          /\ po[i].msgstr = <<>>
          /\ po' = [po EXCEPT ![i].msgstr = <<"x">>]
    /\ out' = [op |-> "translate"]
    /\ UNCHANGED <<txt, poExists, issued>>

\* Po().txt_to_po(file): a fresh POFile is filled from the source text and saved
\* over the .po file; a ValueError in generate_entries ends the run before the save.
txt_to_po ==
    /\ \E r \in generate_entries(txt, poExists, po, issued) :
          /\ r.issued <= MaxIds
          /\ issued' = r.issued
          /\ IF r.kind = "ok"
             THEN po' = lines_to_entries(r.entries) /\ poExists' = TRUE
             ELSE UNCHANGED <<po, poExists>>
          /\ out' = [op |-> "txt_to_po", kind |-> r.kind, before |-> po,
                     entries |-> r.entries]
    /\ UNCHANGED txt

Next == EditSource \/ Translate \/ txt_to_po

Spec == Init /\ [][Next]_vars

\* ============================================================ properties

\* ---- C1 (Spec): a re-run of txt_to_po never overwrites a translation: every
\* unit of the regenerated file whose msgctxt was in the file before the run
\* still has the msgstr it had before the run.
C1_TranslationKept ==
    (out.op = "txt_to_po" /\ out.kind = "ok") =>
        \A i \in 1..Len(po), j \in 1..Len(out.before) :
            po[i].msgctxt = out.before[j].msgctxt => po[i].msgstr = out.before[j].msgstr

\* ---- C2 (SpecResync): generate_entries never fails while parsing a line, and
\* returns for every line of the anchored stream a (text, context) pair with a
\* non-empty context and no delimiter in text or context.
C2_ExactlyOneAnchor ==
    out.op = "generate_entries" =>
        /\ out.kind = "ok"
        /\ Len(out.entries) = Len(split(strip(out.transfered), NL))
        /\ \A i \in 1..Len(out.entries) :
              /\ out.entries[i][2] # <<>>
              /\ Delim \notin Range(out.entries[i][1])
              /\ Delim \notin Range(out.entries[i][2])

\* ---- C3 (SpecResync): in the list generate_entries returns, the contexts of
\* any two distinct entries differ.
C3_NoAnchorTwice ==
    (out.op = "generate_entries" /\ out.kind = "ok") =>
        \A i, j \in 1..Len(out.entries) :
            i # j => out.entries[i][2] # out.entries[j][2]

\* C3 witness: the old line "ab" was split into "a" and "b"; the old anchor went
\* to the second fragment and the first got a new one.
C3_Witness ==
    /\ out.op = "generate_entries" /\ out.kind = "ok" /\ poExists
    /\ Len(po) = 1 /\ po[1].msgid = <<"a", SP, "b">>
    /\ txt = <<"a", NL, "b">>
    /\ out.entries = << <<<<"a">>, <<"2">>>>, <<<<"b">>, <<"1">>>> >>

\* ---- C4 (SpecResync): when the new source text is the text of the N units of
\* the persisted file, generate_entries returns N entries whose contexts are the
\* N original anchors in the original order, and no anchor is generated.
C4_UneditedPreserved ==
    (out.op = "generate_entries" /\ poExists /\ txt = OldText(po)) =>
        /\ out.kind = "ok"
        /\ Len(out.entries) = Len(po)
        /\ \A i \in 1..Len(po) : out.entries[i][2] = po[i].msgctxt
        /\ out.issued = out.issuedBefore

C4_Witness ==
    /\ out.op = "generate_entries" /\ out.kind = "ok" /\ poExists
    /\ txt = OldText(po) /\ Len(po) >= 2
    /\ \A i \in 1..Len(po) : out.entries[i][2] = po[i].msgctxt

\* ---- C5 (SpecResync): when the new source text is the old document plus one
\* appended line not present before, all original anchors are carried forward
\* on their original lines and exactly one new anchor is generated, for the
\* appended line, different from every original anchor.
IsAppended(l) == l \in NewLines /\ txt = OldText(po) \o <<NL>> \o l

C5_NewContentIsolated ==
    \A l \in NewLines :
        (out.op = "generate_entries" /\ poExists /\ IsAppended(l)) =>
            /\ out.kind = "ok"
            /\ Len(out.entries) = Len(po) + 1
            /\ \A i \in 1..Len(po) :
                  out.entries[i] = <<split(OldText(po), NL)[i], po[i].msgctxt>>
            /\ out.entries[Len(po) + 1] = <<l, get_unique_id(out.issuedBefore)>>
            /\ \A i \in 1..Len(po) : po[i].msgctxt # out.entries[Len(po) + 1][2]
            /\ out.issued = out.issuedBefore + 1

C5_Witness ==
    /\ out.op = "generate_entries" /\ out.kind = "ok" /\ poExists
    /\ Len(po) >= 2 /\ \E l \in NewLines : IsAppended(l)
    /\ Len(out.entries) = Len(po) + 1

\* ---- C6 (SpecAnchor): add_missing_uuids on a document whose lines all end
\* with the delimiter generates no anchor and returns the document with the
\* whitespace before its first line removed and nothing else changed; applied
\* twice to any document it gives what it gives applied once.
AllLinesAnchored(doc) == \A l \in Range(split(doc, NL)) : endswith(l, <<Delim>>)

AddMissingNoOp(expected) ==
    out.op = "add_missing_uuids" =>
        /\ AllLinesAnchored(txt) =>
              (out.once = expected /\ out.issuedOnce = out.issuedBefore)
        /\ out.twice = out.once

C6_AnchorIdempotence == AddMissingNoOp(strip(txt))

\* C6 as stated: the document is returned unchanged.
C6_ReturnsUnchanged == AddMissingNoOp(txt)

C6_Witness ==
    /\ out.op = "add_missing_uuids" /\ AllLinesAnchored(txt)
    /\ Len(split(txt, NL)) >= 2
    /\ out.once = strip(txt) /\ out.twice = out.once

\* ---- C7 (SpecAnchor): for a line with k >= 3 delimiters arranged as stacked
\* anchors, one application of remove_extra_uuid yields a line with exactly 2
\* delimiters, whose anchor is the last anchor of the input line.
LastAnchorOf(line) ==
    LET ds == {i \in 1..Len(line) : line[i] = Delim}
        last == CHOOSE i \in ds : \A j \in ds : j <= i
        open == CHOOSE i \in ds \ {last} : \A j \in ds \ {last} : j <= i
    IN  SubSeq(line, open, last)

C7_RepairConvergence ==
    (out.op = "remove_extra_uuid" /\ count(out.line, Delim) >= 3) =>
        /\ count(out.res, Delim) = 2
        /\ endswith(out.res, LastAnchorOf(out.line))

\* ---- C8 (SpecGlossary): find_entries returns the entry of a headword w for
\* the normalized line s exactly when s starts with w and a space, or ends with
\* a space and w, or contains w between two spaces; it returns nothing else.
StartsWithWord(s, w) == startswith(s, w \o <<SP>>)
EndsWithWord(s, w) == endswith(s, <<SP>> \o w)
HasWordInside(s, w) == contains(s, <<SP>> \o w \o <<SP>>)

C8_MatchBoundary ==
    out.op = "find_entries" =>
        /\ \A i \in 1..Len(GlossaryEntries) :
              GlossaryEntries[i] \in Range(out.matches)
              <=> \/ StartsWithWord(out.segment, GlossaryEntries[i].key)
                  \/ EndsWithWord(out.segment, GlossaryEntries[i].key)
                  \/ HasWordInside(out.segment, GlossaryEntries[i].key)
        /\ Range(out.matches) \subseteq Range(GlossaryEntries)

\* C8 witness: "b" matches at the end of "ba b"; "a", inside the token "ba",
\* does not.
C8_Witness ==
    /\ out.op = "find_entries"
    /\ out.segment = <<"b", "a", SP, "b">>
    /\ out.matches = <<GlossaryEntries[2]>>

\* ---- C9 (SpecGlossary): a headword that satisfies more than one of the three
\* conditions on a line is still added to the result exactly once.
Occurrences(q, e) == Cardinality({i \in 1..Len(q) : q[i] = e})

Hits(s, w) ==
    (IF StartsWithWord(s, w) THEN 1 ELSE 0) + (IF EndsWithWord(s, w) THEN 1 ELSE 0)
    + (IF HasWordInside(s, w) THEN 1 ELSE 0)

C9_AddedOnce ==
    out.op = "find_entries" =>
        \A i \in 1..Len(GlossaryEntries) :
            Hits(out.segment, GlossaryEntries[i].key) >= 2
            => Occurrences(out.matches, GlossaryEntries[i]) = 1

\* C9 as stated: the entry is added once for each condition it satisfies.
C9_OncePerCondition ==
    out.op = "find_entries" =>
        \A i \in 1..Len(GlossaryEntries) :
            Occurrences(out.matches, GlossaryEntries[i])
            = Hits(out.segment, GlossaryEntries[i].key)

C9_Witness ==
    /\ out.op = "find_entries"
    /\ \E i \in 1..Len(GlossaryEntries) :
          /\ Hits(out.segment, GlossaryEntries[i].key) = 3
          /\ Occurrences(out.matches, GlossaryEntries[i]) = 1

\* ---- C10 (SpecResync): without a persisted file generate_entries reads no
\* file and calls no alignment; it returns one entry per line of the source
\* text once the whitespace (blank lines included) at its start and end is
\* trimmed, in order, each with the trimmed text of the line and a newly
\* generated anchor.
FirstRun(lines) ==
    (out.op = "generate_entries" /\ ~poExists) =>
        /\ ~out.readPo /\ ~out.aligned
        /\ out.kind = "ok"
        /\ Len(out.entries) = Len(lines)
        /\ \A i \in 1..Len(out.entries) :
              out.entries[i] = <<strip(lines[i]), get_unique_id(out.issuedBefore + i - 1)>>

C10_FirstRun == FirstRun(split(strip(txt), NL))

\* The lines of a text file: a final newline ends the last line, and an empty
\* file counts as one empty line.
SourceLines(doc) ==
    LET ls == split(doc, NL)
    IN  IF doc # <<>> /\ endswith(doc, <<NL>>) THEN SubSeq(ls, 1, Len(ls) - 1) ELSE ls

\* C10 as stated: one entry per line of the source text.
C10_EntryPerSourceLine == FirstRun(SourceLines(txt))

C10_Witness ==
    /\ out.op = "generate_entries" /\ ~poExists /\ out.kind = "ok"
    /\ Len(out.entries) >= 2
    /\ ~out.readPo /\ ~out.aligned

====
